---- MODULE Spec2Model ----
(* Document ingestion pipeline of A-G-I_RFP: the chunker, the PDF text      *)
(* extractor with its OCR fallback, and directory ingestion.                *)
(* Texts are sequences of one-character strings; indices in the Python      *)
(* sense (0-based, negative counted from the end) are kept as they are in   *)
(* the source and converted where a TLA+ sequence is indexed.               *)
EXTENDS Integers, Sequences, FiniteSets, TLC

\* ------------------------------------------------------------ bounds
MaxLen == 5
MaxChunkSize == 4
MaxOverlap == 3
MaxPages == 2
MaxThreshold == 20
MaxFiles == 2
MaxRecords == 2
MaxLongLen == 8
MaxOps == 3
MaxBatch == 2

\* The comment of chunk_text: "Look for sentence endings within last 200 chars".
SnapLookback == 200

\* ------------------------------------------------------------ Python strings
Chars == {"a", ".", "\n"}
Whitespace == {" ", "\n", "\t", "\r"}

Max2(a, b) == IF a >= b THEN a ELSE b
Min2(a, b) == IF a <= b THEN a ELSE b

SetMax(S) == CHOOSE x \in S : \A y \in S : y <= x

\* A slice bound as Python normalises it: negative counts from the end,
\* then clamped to 0..n.
NormIdx(i, n) == IF i < 0 THEN Max2(i + n, 0) ELSE Min2(i, n)

\* text[i:j]
Slice(t, i, j) ==
    LET a == NormIdx(i, Len(t))
        b == NormIdx(j, Len(t))
    IN  IF a >= b THEN <<>> ELSE SubSeq(t, a + 1, b)

\* text.rfind(c, i, j): the highest 0-based index in the slice bounds holding c, else -1
RFind(t, c, i, j) ==
    LET a == NormIdx(i, Len(t))
        b == NormIdx(j, Len(t))
        hits == {k \in a..(b - 1) : t[k + 1] = c}
    IN  IF hits = {} THEN -1 ELSE SetMax(hits)

\* text.strip()
Strip(t) ==
    LET keep == {k \in 1..Len(t) : t[k] \notin Whitespace}
    IN  IF keep = {} THEN <<>>
        ELSE SubSeq(t, CHOOSE x \in keep : \A y \in keep : x <= y, SetMax(keep))

\* Optional[int]: <<>> is None, <<n>> is n.  "x or default"
None == <<>>
OrDefault(opt, default) == IF opt = None \/ opt[1] = 0 THEN default ELSE opt[1]

Texts == UNION {[1..n -> Chars] : n \in 0..MaxLen}

\* ------------------------------------------------------------ state
VARIABLES
    settings,       \* config.settings: chunk_size, chunk_overlap
    text,           \* chunk_text: the text argument
    size_arg,       \* chunk_text: the chunk_size argument (Optional)
    overlap_arg,    \* chunk_text: the chunk_overlap argument (Optional)
    chunk_size,     \* chunk_text: chunk_size after the default is applied
    chunk_overlap,  \* chunk_text: chunk_overlap after the default is applied
    cpc,            \* chunk_text: position ("call", "loop", "done", "diverged", "idle")
    start,          \* chunk_text: the loop variable start
    chunks,         \* chunk_text: the list chunks
    windows         \* history: <<start, end>> of every iteration so far

chunkVars == <<settings, text, size_arg, overlap_arg, chunk_size, chunk_overlap,
               cpc, start, chunks, windows>>

VARIABLES
    processor,      \* "base": DocumentProcessor, "ocr": DocumentProcessorWithOCR
    use_ocr,        \* DocumentProcessorWithOCR.use_ocr
    ocr_threshold,  \* DocumentProcessorWithOCR.ocr_threshold
    force_ocr,      \* extract_text: the force_ocr argument
    doc,            \* the file: its suffix and what each library call on it does
    epc,            \* extract_text: position
    page_i,         \* the page loops: pages handled so far
    etext,          \* extract_text_from_pdf: the local text
    native_text,    \* history: text as the native page loop left it
    ocr_invoked,    \* history: _extract_text_with_ocr was called
    ocr_text,       \* _extract_text_with_ocr: the local text
    ocr_failed,     \* history: the OCR attempt ended in its except clause
    result,         \* extract_text: the returned string
    processed       \* process_document: the returned dict

extractVars == <<processor, use_ocr, ocr_threshold, force_ocr, doc, epc, page_i,
                 etext, native_text, ocr_invoked, ocr_text, ocr_failed, result,
                 processed>>

VARIABLES
    files,          \* ingest_directory: the files the patterns matched, in order
    meta_arg,       \* ingest_directory: the metadata argument as passed
    caller_dict,    \* the caller's metadata dict, as it stands now
    ipc,            \* ingest_directory: position
    file_i,         \* ingest_directory: files handled so far
    total_chunks,   \* ingest_directory: total_chunks
    failed_files,   \* ingest_directory: failed_files
    collection,     \* VectorStore.collection: id -> document and metadata
    outcomes,       \* history: how ingest_file ended for each file handled
    add_calls,      \* history: per file handled, the ids handed to add_documents
    ret             \* ingest_directory: the returned count

ingestVars == <<files, meta_arg, caller_dict, ipc, file_i, total_chunks,
                failed_files, collection, outcomes, add_calls, ret>>

\* ingest_directory's own state: ingestVars without the collection
dirVars == <<files, meta_arg, caller_dict, ipc, file_i, total_chunks,
             failed_files, outcomes, add_calls, ret>>

VARIABLES
    opportunities,        \* ingest_sam_data: the list loaded from the JSON file
    include_description,  \* ingest_sam_data: the argument
    include_full_text,    \* ingest_sam_data: the argument
    spc,                  \* ingest_sam_data: position
    opp_i,                \* ingest_sam_data: records handled so far
    sam_total,            \* ingest_sam_data: total_chunks
    sam_outcomes,         \* history: how the handling of each record ended
    sam_calls,            \* history: per record, the ids handed to add_documents
    sam_ret               \* ingest_sam_data: the returned count

samVars == <<opportunities, include_description, include_full_text, spc, opp_i,
             sam_total, sam_outcomes, sam_calls, sam_ret>>

\* ingest_sam_data is not running
SamIdle ==
    /\ opportunities = <<>>
    /\ include_description = TRUE
    /\ include_full_text = FALSE
    /\ spc = "idle"
    /\ opp_i = 0
    /\ sam_total = 0
    /\ sam_outcomes = <<>>
    /\ sam_calls = <<>>
    /\ sam_ret = 0

VARIABLES
    writers,        \* the callers of add_documents on the collection
    ops_left,       \* calls the callers may still make
    wpc,            \* add_documents, per caller: position
    wchunks,        \* add_documents, per caller: the chunks argument
    wcount,         \* add_documents, per caller: existing_count
    wids,           \* add_documents, per caller: ids
    wlast,          \* history, per caller: how the last call ended
    embed_failed,   \* history, per caller: generate_embeddings raised in this call
    stored,         \* history: chunks add_documents reported added since the last reset
    resets,         \* history: reset_collection calls that went through
    handle_ok,      \* self.collection names a collection the client still holds
    deletes,        \* history: delete_collection calls that went through
    last_op,        \* history: the method called last
    stats           \* the outcome of the last get_collection_stats call

storeVars == <<writers, ops_left, wpc, wchunks, wcount, wids, wlast, embed_failed,
               stored, resets, handle_ok, deletes, last_op, stats>>

\* get_collection_stats was not called yet
NoStats == [status |-> "none", total_chunks |-> 0]

Writers == {1, 2}

\* no caller uses the vector store directly
StoreIdle ==
    /\ writers = {}
    /\ ops_left = 0
    /\ wpc = [w \in Writers |-> "idle"]
    /\ wchunks = [w \in Writers |-> <<>>]
    /\ wcount = [w \in Writers |-> 0]
    /\ wids = [w \in Writers |-> <<>>]
    /\ wlast = [w \in Writers |-> "none"]
    /\ embed_failed = [w \in Writers |-> FALSE]
    /\ stored = 0
    /\ resets = 0
    /\ handle_ok = TRUE
    /\ deletes = 0
    /\ last_op = "none"
    /\ stats = NoStats

vars == <<chunkVars, extractVars, ingestVars, samVars, storeVars>>

\* ------------------------------------------------------------ chunk_text

\* lines 146-156: the end of the window that starts at s
WindowEndNoSnap(t, s, S) == s + S
WindowEndOverrun(t, s, S) == s + S + 1
WindowEnd(t, s, S) ==
    LET e == s + S
        last_period == RFind(t, ".", s, e)
        last_newline == RFind(t, "\n", s, e)
        break_point == Max2(last_period, last_newline)
    IN  IF e < Len(t) /\ break_point > s THEN break_point + 1 ELSE e

\* lines 139-140: the return for a text no longer than the chunk size
ShortResultEmptyList(t) == IF t = <<>> THEN <<>> ELSE <<t>>
ShortResult(t) == <<t>>

\* line 158: the chunk appended for the window [s, e)
WindowChunk(t, s, e) == Strip(Slice(t, s, e))

\* line 159
NextStart(e, O) == e - O

Starts(w) == {w[k][1] : k \in 1..Len(w)}

\* config.py lines 41-42: one deployment's values, read once from the environment
SettingsChoices == [chunk_size : {MaxChunkSize}, chunk_overlap : 0..MaxOverlap]

ChunkIdle ==
    /\ text = <<>>
    /\ size_arg = None
    /\ overlap_arg = None
    /\ chunk_size = 0
    /\ chunk_overlap = 0
    /\ cpc = "idle"
    /\ start = 0
    /\ chunks = <<>>
    /\ windows = <<>>

ChunkInit ==
    /\ settings \in SettingsChoices
    /\ text \in Texts
    /\ size_arg \in {None} \cup {<<n>> : n \in 1..MaxChunkSize}
    /\ overlap_arg \in {None} \cup {<<n>> : n \in 0..MaxOverlap}
    /\ chunk_size = 0
    /\ chunk_overlap = 0
    /\ cpc = "call"
    /\ start = 0
    /\ chunks = <<>>
    /\ windows = <<>>

\* what chunk_text leaves alone
ChunkFrame == UNCHANGED <<extractVars, ingestVars, samVars, storeVars>>

\* lines 136-143: defaults, the short-text return, loop entry
ChunkEnter ==
    /\ cpc = "call"
    /\ chunk_size' = OrDefault(size_arg, settings.chunk_size)
    /\ chunk_overlap' = OrDefault(overlap_arg, settings.chunk_overlap)
    /\ IF Len(text) <= chunk_size'
       THEN /\ chunks' = ShortResult(text)
            /\ cpc' = "done"
       ELSE /\ chunks' = <<>>
            /\ cpc' = "loop"
    /\ start' = 0
    /\ UNCHANGED <<settings, text, size_arg, overlap_arg, windows>>
    /\ ChunkFrame

\* lines 145-159: one iteration of the while loop.  The iteration is a function
\* of start alone, so a start value that comes back is a loop that never ends:
\* the model stops there, in "diverged".
ChunkIter ==
    /\ cpc = "loop"
    /\ start < Len(text)
    /\ LET e == WindowEnd(text, start, chunk_size)
           s2 == NextStart(e, chunk_overlap)
       IN  /\ chunks' = Append(chunks, WindowChunk(text, start, e))
           /\ windows' = Append(windows, <<start, e>>)
           /\ start' = s2
           /\ cpc' = IF s2 < Len(text) /\ s2 \in (Starts(windows) \cup {start})
                     THEN "diverged" ELSE "loop"
    /\ UNCHANGED <<settings, text, size_arg, overlap_arg, chunk_size, chunk_overlap>>
    /\ ChunkFrame

\* lines 145, 161-162: the loop condition fails, the chunks are returned
ChunkReturn ==
    /\ cpc = "loop"
    /\ start >= Len(text)
    /\ cpc' = "done"
    /\ UNCHANGED <<settings, text, size_arg, overlap_arg, chunk_size, chunk_overlap,
                   start, chunks, windows>>
    /\ ChunkFrame

ChunkNext == ChunkEnter \/ ChunkIter \/ ChunkReturn

\* ------------------------------------------------------------ chunk_text as a function

\* lines 145-159 from start s on; seen holds the start values of the iterations
\* so far, and a start that comes back is reported as a loop without end
RECURSIVE ChunkLoop(_, _, _, _, _, _)
ChunkLoop(t, S, O, s, seen, acc) ==
    IF s >= Len(t) THEN [diverged |-> FALSE, chunks |-> acc]
    ELSE IF s \in seen THEN [diverged |-> TRUE, chunks |-> acc]
    ELSE LET e == WindowEnd(t, s, S)
         IN  ChunkLoop(t, S, O, NextStart(e, O), seen \cup {s},
                       Append(acc, WindowChunk(t, s, e)))

\* chunk_text(text, chunk_size, chunk_overlap) under the settings st
ChunkText(t, size_opt, overlap_opt, st) ==
    LET S == OrDefault(size_opt, st.chunk_size)
        O == OrDefault(overlap_opt, st.chunk_overlap)
    IN  IF Len(t) <= S THEN [diverged |-> FALSE, chunks |-> ShortResult(t)]
        ELSE ChunkLoop(t, S, O, 0, {}, <<>>)

\* ------------------------------------------------------------ extract_text

\* What one library call on the file does: raise, or return a text
Fail == [ok |-> FALSE, text |-> <<>>]
Ok(t) == [ok |-> TRUE, text |-> t]

DigitChar(d) ==
    CASE d = 0 -> "0" [] d = 1 -> "1" [] d = 2 -> "2" [] d = 3 -> "3" [] d = 4 -> "4"
      [] d = 5 -> "5" [] d = 6 -> "6" [] d = 7 -> "7" [] d = 8 -> "8" [] OTHER -> "9"

\* str(n) of an f-string
RECURSIVE Decimal(_)
Decimal(n) == IF n < 10 THEN <<DigitChar(n)>> ELSE Decimal(n \div 10) \o <<DigitChar(n % 10)>>

\* f"\n\n--- Page {page_num} ---\n\n"
PageMarker(n) ==
    <<"\n", "\n", "-", "-", "-", " ", "P", "a", "g", "e", " ">> \o Decimal(n)
        \o <<" ", "-", "-", "-", "\n", "\n">>

\* f"\n\n--- Page {page_num} (OCR) ---\n\n"
OcrPageMarker(n) ==
    <<"\n", "\n", "-", "-", "-", " ", "P", "a", "g", "e", " ">> \o Decimal(n)
        \o <<" ", "(", "O", "C", "R", ")", " ", "-", "-", "-", "\n", "\n">>

ImageSuffixes == {".png", ".jpg", ".jpeg", ".tiff", ".bmp"}

\* line 66 of document_processor_ocr.py: the guard of the OCR fallback
NeedsOcrUnstripped(force, use, t, threshold) == force \/ (use /\ Len(t) < threshold)
NeedsOcr(force, use, t, threshold) == force \/ (use /\ Len(Strip(t)) < threshold)

\* lines 98-102: what _extract_text_with_ocr returns from its except clause,
\* given the text accumulated so far
OcrFailureReturn(acc) == <<>>

NativeOutcomes == {Fail, Ok(<<>>), Ok(<<"a">>)}
OcrOutcomes == {Fail, Ok(<<"b">>)}
FileOutcomes == {Fail, Ok(<<>>), Ok(<<"a", "\n">>), Ok(<<"O", "C", "R">>)}

\* process_document has not returned
NoDoc == [text |-> <<>>, chunks |-> <<>>, metadata |-> [k \in {} |-> 0]]

PdfDocs ==
    UNION {
        [suffix : {".pdf"}, reader_ok : BOOLEAN, native : [1..n -> NativeOutcomes],
         render_ok : BOOLEAN, ocr : [1..n -> OcrOutcomes], content : {Fail}]
        : n \in 0..MaxPages}

OtherDocs ==
    [suffix : {".docx", ".txt", ".png", ".xyz"}, reader_ok : {FALSE}, native : {<<>>},
     render_ok : {FALSE}, ocr : {<<>>}, content : FileOutcomes]

ExtractIdle ==
    /\ processor = "base"
    /\ use_ocr = FALSE
    /\ ocr_threshold = 0
    /\ force_ocr = FALSE
    /\ doc = [suffix |-> ".xyz", reader_ok |-> FALSE, native |-> <<>>,
              render_ok |-> FALSE, ocr |-> <<>>, content |-> Fail]
    /\ epc = "idle"
    /\ page_i = 0
    /\ etext = <<>>
    /\ native_text = <<>>
    /\ ocr_invoked = FALSE
    /\ ocr_text = <<>>
    /\ ocr_failed = FALSE
    /\ result = <<>>
    /\ processed = NoDoc

\* DocumentProcessor has no OCR fields and calls no OCR tool: they stay at rest.
ExtractInit ==
    /\ processor \in {"base", "ocr"}
    /\ doc \in PdfDocs \cup OtherDocs
    /\ IF processor = "ocr"
       THEN /\ use_ocr \in BOOLEAN
            /\ ocr_threshold \in 0..MaxThreshold
            /\ force_ocr \in BOOLEAN
       ELSE /\ use_ocr = FALSE
            /\ ocr_threshold = 0
            /\ force_ocr = FALSE
            /\ doc.render_ok = FALSE
            /\ \A k \in 1..Len(doc.ocr) : doc.ocr[k] = Fail
    /\ epc = "call"
    /\ page_i = 0
    /\ etext = <<>>
    /\ native_text = <<>>
    /\ ocr_invoked = FALSE
    /\ ocr_text = <<>>
    /\ ocr_failed = FALSE
    /\ result = <<>>
    /\ processed = NoDoc

Return(t) ==
    /\ result' = t
    /\ epc' = "done"

\* what extract_text leaves alone
ExtractFrame == UNCHANGED <<processed, chunkVars, ingestVars, samVars, storeVars>>

\* extract_text_from_docx, reached from extract_text for .docx and .doc
ExtractDocx ==
    /\ epc = "call"
    /\ doc.suffix \in {".docx", ".doc"}
    /\ Return(IF doc.content.ok THEN doc.content.text ELSE <<>>)
    /\ UNCHANGED <<processor, use_ocr, ocr_threshold, force_ocr, doc, page_i, etext,
                   native_text, ocr_invoked, ocr_text, ocr_failed>>
    /\ ExtractFrame

\* extract_text_from_txt
ExtractTxt ==
    /\ epc = "call"
    /\ doc.suffix = ".txt"
    /\ Return(IF doc.content.ok THEN doc.content.text ELSE <<>>)
    /\ UNCHANGED <<processor, use_ocr, ocr_threshold, force_ocr, doc, page_i, etext,
                   native_text, ocr_invoked, ocr_text, ocr_failed>>
    /\ ExtractFrame

\* DocumentProcessorWithOCR.extract_text_from_image
ExtractImage ==
    /\ epc = "call"
    /\ processor = "ocr"
    /\ doc.suffix \in ImageSuffixes
    /\ Return(IF doc.content.ok THEN doc.content.text ELSE <<>>)
    /\ ocr_invoked' = TRUE
    /\ ocr_failed' = ~doc.content.ok
    /\ UNCHANGED <<processor, use_ocr, ocr_threshold, force_ocr, doc, page_i, etext,
                   native_text, ocr_text>>
    /\ ExtractFrame

\* extract_text: the else branch
ExtractUnsupported ==
    /\ epc = "call"
    /\ doc.suffix \notin {".pdf", ".docx", ".doc", ".txt"}
    /\ processor = "ocr" => doc.suffix \notin ImageSuffixes
    /\ Return(<<>>)
    /\ UNCHANGED <<processor, use_ocr, ocr_threshold, force_ocr, doc, page_i, etext,
                   native_text, ocr_invoked, ocr_text, ocr_failed>>
    /\ ExtractFrame

\* extract_text_from_pdf up to the page loop: PdfReader(file_path) and its handler
PdfOpen ==
    /\ epc = "call"
    /\ doc.suffix = ".pdf"
    /\ page_i' = 0
    /\ etext' = <<>>
    /\ native_text' = <<>>
    /\ IF processor = "base"
       THEN IF doc.reader_ok
            THEN epc' = "native_pages" /\ UNCHANGED result
            ELSE Return(<<>>)
       ELSE /\ epc' = IF ~force_ocr /\ doc.reader_ok THEN "native_pages" ELSE "ocr_check"
            /\ UNCHANGED result
    /\ UNCHANGED <<processor, use_ocr, ocr_threshold, force_ocr, doc,
                   ocr_invoked, ocr_text, ocr_failed>>
    /\ ExtractFrame

\* one page of the native loop: page.extract_text() and its handler
PdfPage ==
    /\ epc = "native_pages"
    /\ page_i < Len(doc.native)
    /\ LET o == doc.native[page_i + 1]
       IN  etext' = IF o.ok THEN etext \o PageMarker(page_i + 1) \o o.text ELSE etext
    /\ page_i' = page_i + 1
    /\ UNCHANGED <<processor, use_ocr, ocr_threshold, force_ocr, doc, epc,
                   native_text, ocr_invoked, ocr_text, ocr_failed, result>>
    /\ ExtractFrame

\* the native loop is over
PdfPagesDone ==
    /\ epc = "native_pages"
    /\ page_i = Len(doc.native)
    /\ native_text' = etext
    /\ IF processor = "base"
       THEN Return(etext)
       ELSE epc' = "ocr_check" /\ UNCHANGED result
    /\ UNCHANGED <<processor, use_ocr, ocr_threshold, force_ocr, doc, page_i, etext,
                   ocr_invoked, ocr_text, ocr_failed>>
    /\ ExtractFrame

\* lines 66-70: enter the OCR fallback, or return the native text
OcrCheck ==
    /\ epc = "ocr_check"
    /\ IF NeedsOcr(force_ocr, use_ocr, etext, ocr_threshold)
       THEN /\ ocr_invoked' = TRUE
            /\ epc' = "ocr_render"
            /\ UNCHANGED result
       ELSE /\ Return(etext)
            /\ UNCHANGED ocr_invoked
    /\ UNCHANGED <<processor, use_ocr, ocr_threshold, force_ocr, doc, page_i, etext,
                   native_text, ocr_text, ocr_failed>>
    /\ ExtractFrame

\* _extract_text_with_ocr: convert_from_path, and the except clause if it raises
OcrRender ==
    /\ epc = "ocr_render"
    /\ page_i' = 0
    /\ ocr_text' = <<>>
    /\ IF doc.render_ok
       THEN /\ epc' = "ocr_pages"
            /\ UNCHANGED <<etext, ocr_failed, result>>
       ELSE /\ ocr_failed' = TRUE
            /\ etext' = OcrFailureReturn(<<>>)
            /\ Return(OcrFailureReturn(<<>>))
    /\ UNCHANGED <<processor, use_ocr, ocr_threshold, force_ocr, doc,
                   native_text, ocr_invoked>>
    /\ ExtractFrame

\* one page of the OCR loop: image_to_string, and the except clause if it raises
OcrPage ==
    /\ epc = "ocr_pages"
    /\ page_i < Len(doc.ocr)
    /\ LET o == doc.ocr[page_i + 1]
       IN  IF o.ok
           THEN /\ ocr_text' = ocr_text \o OcrPageMarker(page_i + 1) \o o.text
                /\ page_i' = page_i + 1
                /\ UNCHANGED <<epc, etext, ocr_failed, result>>
           ELSE /\ ocr_failed' = TRUE
                /\ etext' = OcrFailureReturn(ocr_text)
                /\ Return(OcrFailureReturn(ocr_text))
                /\ UNCHANGED <<ocr_text, page_i>>
    /\ UNCHANGED <<processor, use_ocr, ocr_threshold, force_ocr, doc,
                   native_text, ocr_invoked>>
    /\ ExtractFrame

\* the OCR loop is over: its text is what extract_text_from_pdf returns
OcrDone ==
    /\ epc = "ocr_pages"
    /\ page_i = Len(doc.ocr)
    /\ etext' = ocr_text
    /\ Return(ocr_text)
    /\ UNCHANGED <<processor, use_ocr, ocr_threshold, force_ocr, doc, page_i,
                   native_text, ocr_invoked, ocr_text, ocr_failed>>
    /\ ExtractFrame

\* sub in t
Contains(t, sub) ==
    \E i \in 1..(Len(t) - Len(sub) + 1) : SubSeq(t, i, i + Len(sub) - 1) = sub

\* document_processor_ocr.py line 283: "OCR" in text
OcrUsed(t) == Contains(t, <<"O", "C", "R">>)

\* DocumentProcessorWithOCR.process_document, lines 261-295, from the return
\* of extract_text on; the fields naming the file are left out of the metadata
ProcessDocumentOcr ==
    /\ epc = "done"
    /\ processor = "ocr"
    /\ \E stat_ok \in BOOLEAN :
        LET ct == ChunkText(result, None, None, settings)
        IN  IF result = <<>>
            THEN /\ processed' = NoDoc
                 /\ epc' = "processed"
            ELSE IF ct.diverged
            THEN /\ epc' = "hung"
                 /\ UNCHANGED processed
            ELSE IF ~stat_ok
            THEN /\ epc' = "raised"
                 /\ UNCHANGED processed
            ELSE /\ processed' =
                        [text |-> result, chunks |-> ct.chunks,
                         metadata |-> [num_chunks |-> Len(ct.chunks),
                                       text_length |-> Len(result),
                                       ocr_used |-> OcrUsed(result)]]
                 /\ epc' = "processed"
    /\ UNCHANGED <<processor, use_ocr, ocr_threshold, force_ocr, doc, page_i, etext,
                   native_text, ocr_invoked, ocr_text, ocr_failed, result>>
    /\ UNCHANGED <<chunkVars, ingestVars, samVars, storeVars>>

ExtractNext ==
    \/ ExtractDocx
    \/ ExtractTxt
    \/ ExtractImage
    \/ ExtractUnsupported
    \/ PdfOpen
    \/ PdfPage
    \/ PdfPagesDone
    \/ OcrCheck
    \/ OcrRender
    \/ OcrPage
    \/ OcrDone
    \/ ProcessDocumentOcr


\* ------------------------------------------------------------ ingest_directory

\* DocumentProcessor.extract_text on a file of a directory: a .pdf holds one
\* page, the other kinds hold their content; an unreadable file makes the
\* library call raise, which the extractor's handler turns into ""
ExtractTextBase(f) ==
    IF f.suffix = ".pdf"
        THEN IF f.readable THEN PageMarker(1) \o f.content ELSE <<>>
    ELSE IF f.suffix \in {".docx", ".doc", ".txt"}
        THEN IF f.readable THEN f.content ELSE <<>>
    ELSE <<>>

\* str.replace(" ", "_")
ReplaceSpaces(s) == [k \in 1..Len(s) |-> IF s[k] = " " THEN "_" ELSE s[k]]

\* ingest_documents.py lines 81-85: f"{file_id}_chunk_{i}", i = 0 .. n-1
ChunkIds(f, n) ==
    [k \in 1..n |->
        ReplaceSpaces(f.stem) \o <<"_", "c", "h", "u", "n", "k", "_">> \o Decimal(k - 1)]

\* the characters of a suffix
SuffixChars(x) ==
    CASE x = ".txt" -> <<".", "t", "x", "t">>
      [] x = ".pdf" -> <<".", "p", "d", "f">>
      [] x = ".docx" -> <<".", "d", "o", "c", "x">>
      [] x = ".doc" -> <<".", "d", "o", "c">>
      [] x = ".png" -> <<".", "p", "n", "g">>
      [] OTHER -> <<".", "x", "y", "z">>

\* file_path.name
FileName(f) == f.stem \o SuffixChars(f.suffix)

\* a merge that keeps the values d already holds
DictUpdateKeep(d, e) ==
    [k \in DOMAIN d \cup DOMAIN e |-> IF k \in DOMAIN d THEN d[k] ELSE e[k]]

\* a dict update: the keys of e win
DictUpdate(d, e) ==
    [k \in DOMAIN d \cup DOMAIN e |-> IF k \in DOMAIN e THEN e[k] ELSE d[k]]

EmptyDict == [k \in {} |-> 0]

\* process_document lines 198-204
DocMetadata(f, t, n) ==
    [file_name |-> FileName(f), file_type |-> SuffixChars(f.suffix), file_size |-> f.size,
     num_chunks |-> n, text_length |-> Len(t)]

\* ingest_file lines 68-73: base_metadata after the update
BaseMetadataCallerFirst(meta, f, docmeta) ==
    DictUpdate(DictUpdate([source_file |-> FileName(f), file_type |-> SuffixChars(f.suffix)],
                          docmeta),
               meta)
BaseMetadata(meta, f, docmeta) ==
    DictUpdate(meta,
        DictUpdate([source_file |-> FileName(f), file_type |-> SuffixChars(f.suffix)],
                   docmeta))

\* ingest_file lines 75-78
ChunkMetadatas(base, n) ==
    [k \in 1..n |-> DictUpdate(base, [chunk_index |-> k - 1])]

\* ingest_directory line 142
AddCountOnePerFile(total, count) == total + (IF count > 0 THEN 1 ELSE 0)
AddCount(total, count) == total + count

\* collection.add: entries under new ids are stored, ids already held are kept
CollectionUpsert(coll, ids, docs, metas) ==
    LET given == {ids[k] : k \in 1..Len(ids)}
        At(id) == CHOOSE k \in 1..Len(ids) : ids[k] = id
    IN  [id \in DOMAIN coll \cup given |->
            IF id \in given THEN [document |-> docs[At(id)], metadata |-> metas[At(id)]]
            ELSE coll[id]]
CollectionAdd(coll, ids, docs, metas) ==
    LET new == {ids[k] : k \in 1..Len(ids)} \ DOMAIN coll
        At(id) == CHOOSE k \in 1..Len(ids) : ids[k] = id
    IN  [id \in DOMAIN coll \cup new |->
            IF id \in DOMAIN coll THEN coll[id]
            ELSE [document |-> docs[At(id)], metadata |-> metas[At(id)]]]

\* process_document lines 182-195: the chunks of the file f, none for empty text
ProcessChunks(f, st) ==
    LET t == ExtractTextBase(f)
    IN  IF t = <<>> THEN [diverged |-> FALSE, chunks |-> <<>>]
        ELSE ChunkText(t, None, None, st)

\* collection.count()
Count(coll) == Cardinality(DOMAIN coll)

\* add_documents line 103: f"chunk_{existing_count + i}", i = 0 .. n-1
AutoIdsFromZero(existing_count, n) ==
    [k \in 1..n |-> <<"c", "h", "u", "n", "k", "_">> \o Decimal(k - 1)]
AutoIdsNone(existing_count, n) == <<>>
AutoIds(existing_count, n) ==
    [k \in 1..n |-> <<"c", "h", "u", "n", "k", "_">> \o Decimal(existing_count + k - 1)]

\* add_documents lines 109-110: the collection as a failure of the embedding
\* model leaves it; the exception leaves add_documents before collection.add
FirstEntryStored(coll, ids, docs, metas) ==
    CollectionAdd(coll, <<ids[1]>>, <<docs[1]>>, <<metas[1]>>)
OnEmbeddingError(coll, ids, docs, metas) == coll

\* add_documents called as if ids were never given
AddDocumentsAutoIds(coll, chunks_arg, metas, ids, embed_ok, add_ok) ==
    [raised |-> FALSE, count |-> Len(chunks_arg),
     coll |-> CollectionAdd(coll, AutoIds(Count(coll), Len(chunks_arg)), chunks_arg, metas)]

\* add_documents(chunks, metadatas, ids) on the collection coll.
\* embed_ok: generate_embeddings works; add_ok: collection.add works
AddDocuments(coll, chunks_arg, metas, ids, embed_ok, add_ok) ==
    IF chunks_arg = <<>>
        THEN [raised |-> FALSE, count |-> 0, coll |-> coll]
    ELSE LET the_ids == IF ids = None THEN AutoIds(Count(coll), Len(chunks_arg))
                        ELSE ids
             the_metas == IF metas = None THEN [k \in 1..Len(chunks_arg) |-> EmptyDict]
                          ELSE metas
         IN  IF ~embed_ok
                 THEN [raised |-> TRUE, count |-> 0,
                       coll |-> OnEmbeddingError(coll, the_ids, chunks_arg, the_metas)]
             ELSE IF ~add_ok
                 THEN [raised |-> TRUE, count |-> 0, coll |-> coll]
             ELSE [raised |-> FALSE, count |-> Len(chunks_arg),
                   coll |-> CollectionAdd(coll, the_ids, chunks_arg, the_metas)]

\* ingest_file line 63: not doc_data["chunks"]
NoChunksNever(chunk_list) == FALSE
NoChunks(chunk_list) == chunk_list = <<>>

\* ingest_file(file_path, metadata): what it does to the caller's dict and to
\* the collection, how it ends, and the id lists it handed to add_documents.
\* stat_ok: file_path.stat() works; embed_ok, add_ok: as in AddDocuments
IngestFile(f, meta, st, coll, stat_ok, embed_ok, add_ok) ==
    LET t == ExtractTextBase(f)
        ct == ProcessChunks(f, st)
        n == Len(ct.chunks)
        shared == meta.given /\ DOMAIN meta.dict # {}
        base == BaseMetadata(IF shared THEN meta.dict ELSE EmptyDict, f,
                             IF t = <<>> THEN EmptyDict ELSE DocMetadata(f, t, n))
        after == IF shared THEN base ELSE meta.dict
        ids == ChunkIds(f, n)
        added == AddDocuments(coll, ct.chunks, ChunkMetadatas(base, n), ids,
                              embed_ok, add_ok)
    IN  IF t # <<>> /\ ct.diverged
            THEN [status |-> "hung", count |-> 0, dict |-> meta.dict, coll |-> coll,
                  calls |-> <<>>]
        ELSE IF t # <<>> /\ ~stat_ok
            THEN [status |-> "raised", count |-> 0, dict |-> meta.dict, coll |-> coll,
                  calls |-> <<>>]
        ELSE IF NoChunks(ct.chunks)
            THEN [status |-> "returned", count |-> 0, dict |-> meta.dict, coll |-> coll,
                  calls |-> <<>>]
        ELSE [status |-> IF added.raised THEN "raised" ELSE "returned",
              count |-> added.count, dict |-> after, coll |-> added.coll,
              calls |-> <<ids>>]

\* the paths a listing draws from: two share a stem, two share a suffix
DirPaths == {<<<<"r">>, ".txt">>, <<<<"r">>, ".pdf">>, <<<<"s">>, ".txt">>}
FileContents == {<<>>, <<"a", ".", "a", "a", "a">>}

\* the settings the batch entry points run under: no overlap, and an overlap
\* one below the largest
BatchSettings ==
    {st \in SettingsChoices : st.chunk_overlap \in {0, MaxOverlap - 1}}

\* file_path.stat().st_size: the files of the two suffixes differ in size
FileSize(p) == IF p[2] = ".pdf" THEN Len(p[1]) + 1 ELSE Len(p[1])

\* the files a directory may hold: readable ones with their content, and
\* corrupt ones, on which the library call of the extractor raises
DirFiles ==
    {[stem |-> p[1], suffix |-> p[2], readable |-> TRUE, content |-> c,
      size |-> FileSize(p)] : p \in DirPaths, c \in FileContents}
    \cup {[stem |-> p[1], suffix |-> p[2], readable |-> FALSE, content |-> <<"a">>,
           size |-> FileSize(p)] : p \in DirPaths}

\* a directory listing, lines 122-127: the matches of each pattern in turn,
\* with no removal of duplicates, so a file that two of the caller's patterns
\* match is listed twice; a path names one file
Listings ==
    {l \in UNION {[1..n -> DirFiles] : n \in 0..MaxFiles} :
        \A i, j \in 1..Len(l) :
            (l[i].stem = l[j].stem /\ l[i].suffix = l[j].suffix) => l[i] = l[j]}

\* the metadata argument: None, or a dict
MetaChoices ==
    {[given |-> FALSE, dict |-> EmptyDict],
     [given |-> TRUE, dict |-> EmptyDict],
     [given |-> TRUE, dict |-> [project |-> <<"p">>, file_type |-> <<"q">>]]}

IngestIdle ==
    /\ files = <<>>
    /\ meta_arg = [given |-> FALSE, dict |-> EmptyDict]
    /\ caller_dict = EmptyDict
    /\ ipc = "idle"
    /\ file_i = 0
    /\ total_chunks = 0
    /\ failed_files = <<>>
    /\ collection = EmptyDict
    /\ outcomes = <<>>
    /\ add_calls = <<>>
    /\ ret = 0

IngestInit ==
    /\ files \in Listings
    /\ meta_arg \in MetaChoices
    /\ caller_dict = meta_arg.dict
    /\ ipc = "call"
    /\ file_i = 0
    /\ total_chunks = 0
    /\ failed_files = <<>>
    /\ collection = EmptyDict
    /\ outcomes = <<>>
    /\ add_calls = <<>>
    /\ ret = 0

\* what ingest_directory leaves alone
IngestFrame == UNCHANGED <<chunkVars, extractVars, samVars, storeVars>>

\* ingest_directory lines 116-137: the listing, and the return for an empty one
IngestDirStart ==
    /\ ipc = "call"
    /\ IF files = <<>>
       THEN ipc' = "done"
       ELSE ipc' = "loop"
    /\ ret' = 0
    /\ total_chunks' = 0
    /\ failed_files' = <<>>
    /\ UNCHANGED <<files, meta_arg, caller_dict, file_i, collection, outcomes,
                   add_calls>>
    /\ IngestFrame

\* ingest_directory lines 139-145: one file of the loop
IngestDirFile ==
    /\ ipc = "loop"
    /\ file_i < Len(files)
    /\ \E stat_ok, embed_ok, add_ok \in BOOLEAN :
        LET f == files[file_i + 1]
            r == IngestFile(f, [given |-> meta_arg.given, dict |-> caller_dict],
                            settings, collection, stat_ok, embed_ok, add_ok)
        IN  /\ caller_dict' = r.dict
            /\ collection' = r.coll
            /\ outcomes' = Append(outcomes, r.status)
            /\ add_calls' = Append(add_calls, r.calls)
            /\ total_chunks' = IF r.status = "returned"
                               THEN AddCount(total_chunks, r.count) ELSE total_chunks
            /\ failed_files' = IF r.status = "raised"
                               THEN Append(failed_files, FileName(f)) ELSE failed_files
            /\ ipc' = IF r.status = "hung" THEN "hung" ELSE "loop"
            /\ file_i' = IF r.status = "hung" THEN file_i ELSE file_i + 1
    /\ UNCHANGED <<files, meta_arg, ret>>
    /\ IngestFrame

\* ingest_directory lines 147-152
IngestDirReturn ==
    /\ ipc = "loop"
    /\ file_i = Len(files)
    /\ ret' = total_chunks
    /\ ipc' = "done"
    /\ UNCHANGED <<files, meta_arg, caller_dict, file_i, total_chunks, failed_files,
                   collection, outcomes, add_calls>>
    /\ IngestFrame

IngestNext == IngestDirStart \/ IngestDirFile \/ IngestDirReturn

InitIngest ==
    /\ settings \in BatchSettings
    /\ ChunkIdle /\ ExtractIdle /\ IngestInit /\ SamIdle /\ StoreIdle

SpecIngest == InitIngest /\ [][IngestNext]_vars

\* ------------------------------------------------------------ ingest_directory: claims

CorruptIdx == {k \in 1..Len(files) : ~files[k].readable}

\* the number of chunks process_document makes of a file under the settings
ChunkCount(f) == Len(ProcessChunks(f, settings).chunks)

RECURSIVE SumChunkCounts(_)
SumChunkCounts(idx) ==
    IF idx = {} THEN 0
    ELSE LET k == CHOOSE x \in idx : TRUE
         IN  ChunkCount(files[k]) + SumChunkCounts(idx \ {k})

\* the batch is over, one file of it was corrupt and ingest_file raised on none
\* of the others
OneCorruptDone ==
    /\ ipc = "done"
    /\ Cardinality(CorruptIdx) = 1
    /\ \A k \in 1..Len(files) : files[k].readable => outcomes[k] = "returned"

\* C10 as claimed: with exactly one corrupt file among N, ingest_directory
\* returns the sum of the chunk counts of the other N-1 files and its failure
\* list holds exactly the corrupt file.
C10_OneCorruptOneFailure ==
    OneCorruptDone =>
        /\ ret = SumChunkCounts((1..Len(files)) \ CorruptIdx)
        /\ failed_files = <<FileName(files[CHOOSE k \in CorruptIdx : TRUE])>>

\* C10 amended: with exactly one corrupt file among N, ingest_directory returns
\* the sum of the chunk counts of the other N-1 files and records no failure
\* for the corrupt file: its failure list stays empty.
C10_OneCorruptNoFailure ==
    /\ OneCorruptDone =>
        /\ ret = SumChunkCounts((1..Len(files)) \ CorruptIdx)
        /\ failed_files = <<>>
    /\ \A k \in CorruptIdx, j \in 1..Len(failed_files) :
            failed_files[j] # FileName(files[k])

C10_Witness ==
    /\ OneCorruptDone
    /\ Len(files) >= 2
    /\ ret >= 2

\* the step of ingest_directory that handles the next file
HandlesFile == ipc = "loop" /\ file_i < Len(files)

\* C11: every batch ingestion completes and returns a count whatever a single
\* item holds: ingest_directory never gets stuck inside the handling of a file.
C11_BatchCompletes == ipc # "hung"

EarlierIngestions ==
    {i \in 1..file_i : /\ files[i] = files[file_i + 1]
                       /\ outcomes[i] = "returned"
                       /\ add_calls[i] # <<>>}

\* C13: a second ingestion of the same unchanged file under the same settings
\* hands add_documents the identifier sequence of the first, and the
\* collection holds no identifier after it that it did not hold before.
C13_SameIdsNoNewEntry ==
    [][(HandlesFile /\ EarlierIngestions # {}) =>
            /\ ipc' # "hung"
            /\ \A i \in EarlierIngestions :
                    add_calls'[file_i + 1] \in {<<>>, add_calls[i]}
            /\ DOMAIN collection' = DOMAIN collection]_vars

C13_Witness ==
    /\ Len(outcomes) = 2
    /\ files[1] = files[2]
    /\ outcomes = <<"returned", "returned">>
    /\ add_calls[1] # <<>>
    /\ add_calls[2] = add_calls[1]
    /\ Len(add_calls[1][1]) >= 2

\* the identifiers ingest_file derived for the k-th file handled
IdsOf(k) ==
    IF add_calls[k] = <<>> THEN {}
    ELSE {add_calls[k][1][n] : n \in 1..Len(add_calls[k][1])}

\* C14: two distinct source files receive disjoint identifier sets.
C14_DisjointIds ==
    \A i, j \in 1..Len(add_calls) :
        files[i] # files[j] => IdsOf(i) \cap IdsOf(j) = {}

StoredMetadatas == {collection[id].metadata : id \in DOMAIN collection}

\* C16 as claimed: the stored value of a key the caller supplied is the
\* caller's value unless the key is source_file or chunk_index.
C16_CallerWinsButTwoKeys ==
    \A m \in StoredMetadatas :
        \A k \in DOMAIN meta_arg.dict \ {"source_file", "chunk_index"} :
            k \in DOMAIN m /\ m[k] = meta_arg.dict[k]

\* the keys ingest_file and process_document write
PipelineKeys ==
    {"source_file", "file_type", "file_name", "file_size", "num_chunks",
     "text_length", "chunk_index"}

\* C16 amended: the stored value of a key the caller supplied is the caller's
\* value unless the key is one of source_file, file_type, file_name,
\* file_size, num_chunks, text_length and chunk_index, for which the
\* pipeline's value is stored.
C16_CallerWinsButPipelineKeys ==
    \A m \in StoredMetadatas :
        /\ \A k \in DOMAIN meta_arg.dict \ PipelineKeys :
                k \in DOMAIN m /\ m[k] = meta_arg.dict[k]
        /\ PipelineKeys \subseteq DOMAIN m
        /\ \E k \in 1..Len(outcomes) :
                /\ m.source_file = FileName(files[k])
                /\ m.file_name = FileName(files[k])
                /\ m.file_type = SuffixChars(files[k].suffix)
                /\ m.file_size = files[k].size
        /\ m.chunk_index \in 0..(m.num_chunks - 1)

C16_Witness ==
    /\ "file_type" \in DOMAIN meta_arg.dict
    /\ \E m \in StoredMetadatas :
            /\ m.project = meta_arg.dict.project
            /\ m.file_type # meta_arg.dict.file_type
            /\ m.chunk_index = 1

\* C27: ingest_file leaves the mapping the caller passed as metadata as it
\* was: after the handling of a file, successful or not, the caller's mapping
\* holds the keys and values it held before.
C27_CallerMappingUnchanged ==
    [][HandlesFile => caller_dict' = caller_dict]_vars

\* the keys that describe the file a chunk comes from
FileKeys ==
    {"source_file", "file_name", "file_type", "file_size", "num_chunks", "text_length"}

\* C28: in ingest_directory called with a metadata mapping, the entries the
\* handling of a file stores carry that file's own source_file, file_name,
\* file_type, file_size, num_chunks and text_length, whatever the files
\* handled before it in the batch left in the mapping.
C28_OwnFileMetadata ==
    [][(HandlesFile /\ meta_arg.given) =>
            LET f == files[file_i + 1]
            IN  \A id \in DOMAIN collection' \ DOMAIN collection :
                    LET m == collection'[id].metadata
                    IN  /\ FileKeys \subseteq DOMAIN m
                        /\ m.source_file = FileName(f)
                        /\ m.file_name = FileName(f)
                        /\ m.file_type = SuffixChars(f.suffix)
                        /\ m.file_size = f.size
                        /\ m.num_chunks = ChunkCount(f)
                        /\ m.text_length = Len(ExtractTextBase(f))]_vars

\* two files of different name, type and size were stored through one
\* non-empty caller mapping
C28_Witness ==
    /\ DOMAIN meta_arg.dict # {}
    /\ Len(outcomes) = 2
    /\ \E m1, m2 \in StoredMetadatas :
            /\ m1.source_file = FileName(files[1])
            /\ m2.source_file = FileName(files[2])
            /\ m1.source_file # m2.source_file
            /\ m1.file_type # m2.file_type
            /\ m1.file_size # m2.file_size
            /\ m1.chunk_index = 1
            /\ m2.chunk_index = 1

\* ------------------------------------------------------------ ingest_sam_data

\* dict.get(key, default)
Get(d, key, default) == IF key \in DOMAIN d THEN d[key] ELSE default

\* a key is present with a truthy (non-empty) string: opp.get(key) in a condition
HasTextKeyOnly(opp, key) == key \in DOMAIN opp
HasText(opp, key) == key \in DOMAIN opp /\ opp[key] # <<>>

\* "\n\n".join(parts)
RECURSIVE Join(_)
Join(parts) ==
    IF parts = <<>> THEN <<>>
    ELSE IF Len(parts) = 1 THEN parts[1]
    ELSE parts[1] \o <<"\n", "\n">> \o Join(Tail(parts))

\* lines 187-199: text_parts
TextParts(opp, incl_desc, incl_full) ==
    (IF HasText(opp, "title")
        THEN <<<<"T", "i", "t", "l", "e", ":", " ">> \o opp.title>> ELSE <<>>)
    \o (IF incl_desc /\ HasText(opp, "description")
        THEN <<<<"D", "e", "s", "c", "r", "i", "p", "t", "i", "o", "n", ":", " ">> \o opp.description>> ELSE <<>>)
    \o (IF incl_full /\ HasText(opp, "fullText")
        THEN <<opp.fullText>> ELSE <<>>)

\* lines 217-218: .get on the value of a nested field raises unless the
\* value is a dict (a JSON null or string there raises AttributeError)
MetadataRaises(opp) ==
    \/ "department" \in DOMAIN opp /\ ~opp.department.is_dict
    \/ "officeAddress" \in DOMAIN opp /\ ~opp.officeAddress.is_dict

\* lines 211-219
SamMetadata(opp) ==
    [source |-> <<"s", "a", "m", "_", "g", "o", "v">>,
     notice_id |-> Get(opp, "noticeId", <<>>),
     title |-> Get(opp, "title", <<>>),
     type |-> Get(opp, "type", <<>>),
     posted_date |-> Get(opp, "postedDate", <<>>),
     department |-> Get(Get(opp, "department", EmptyDict), "name", <<>>),
     office |-> Get(Get(opp, "officeAddress", EmptyDict), "city", <<>>)]

\* lines 227-231: f"sam_{notice_id}_chunk_{i}", i = 0 .. n-1
SamIdsKeyless(opp, n) ==
    [k \in 1..n |-> <<"s", "a", "m", "_">> \o <<"_", "c", "h", "u", "n", "k", "_">> \o Decimal(k - 1)]
SamIds(opp, n) ==
    [k \in 1..n |->
        <<"s", "a", "m", "_">> \o Get(opp, "noticeId", <<"u", "n", "k", "n", "o", "w", "n">>) \o <<"_", "c", "h", "u", "n", "k", "_">> \o Decimal(k - 1)]

\* lines 185-243: the loop body for the record opp on the collection coll
IngestRecord(opp, incl_desc, incl_full, st, coll, embed_ok, add_ok) ==
    LET parts == TextParts(opp, incl_desc, incl_full)
        ct == ChunkText(Join(parts), None, None, st)
        n == Len(ct.chunks)
        ids == SamIds(opp, n)
        added == AddDocuments(coll, ct.chunks, ChunkMetadatas(SamMetadata(opp), n), ids,
                              embed_ok, add_ok)
    IN  IF parts = <<>>
            THEN [status |-> "skipped", count |-> 0, coll |-> coll, calls |-> <<>>]
        ELSE IF ct.diverged
            THEN [status |-> "hung", count |-> 0, coll |-> coll, calls |-> <<>>]
        ELSE IF MetadataRaises(opp)
            THEN [status |-> "raised", count |-> 0, coll |-> coll, calls |-> <<>>]
        ELSE [status |-> IF added.raised THEN "raised" ELSE "added",
              count |-> added.count, coll |-> added.coll, calls |-> <<ids>>]

\* the records a SAM.gov file may hold: with and without a notice id, with
\* and without text fields, and one whose department is a JSON null
SamRecords ==
    {[title |-> <<"t">>, noticeId |-> <<"1">>],
     [title |-> <<"t">>, noticeId |-> <<"2">>,
      department |-> [is_dict |-> TRUE, name |-> <<"d">>]],
     [title |-> <<"t">>],
     [title |-> <<"u">>, description |-> <<"b">>],
     [noticeId |-> <<"3">>, fullText |-> <<"c">>],
     [noticeId |-> <<"4">>],
     [title |-> <<>>, noticeId |-> <<"5">>],
     [title |-> <<"t">>, noticeId |-> <<"6">>, department |-> [is_dict |-> FALSE]]}

\* the list json.load returns; a single object is made the one-element list
\* (lines 177-178)
SamLists == UNION {[1..n -> SamRecords] : n \in 0..MaxRecords}

SamInit ==
    /\ opportunities \in SamLists
    /\ include_description \in BOOLEAN
    /\ include_full_text \in BOOLEAN
    /\ spc = "call"
    /\ opp_i = 0
    /\ sam_total = 0
    /\ sam_outcomes = <<>>
    /\ sam_calls = <<>>
    /\ sam_ret = 0

\* what ingest_sam_data leaves alone
SamFrame == UNCHANGED <<chunkVars, extractVars, dirVars, storeVars>>

\* lines 171-182: open and json.load, outside the per-record handler
SamLoad ==
    /\ spc = "call"
    /\ \E load_ok \in BOOLEAN : spc' = IF load_ok THEN "loop" ELSE "raised"
    /\ sam_total' = 0
    /\ UNCHANGED <<opportunities, include_description, include_full_text, opp_i,
                   sam_outcomes, sam_calls, sam_ret, collection>>
    /\ SamFrame

\* lines 184-243: one record of the loop
SamRecord ==
    /\ spc = "loop"
    /\ opp_i < Len(opportunities)
    /\ \E embed_ok, add_ok \in BOOLEAN :
        LET r == IngestRecord(opportunities[opp_i + 1], include_description,
                              include_full_text, settings, collection, embed_ok, add_ok)
        IN  /\ collection' = r.coll
            /\ sam_outcomes' = Append(sam_outcomes, r.status)
            /\ sam_calls' = Append(sam_calls, r.calls)
            /\ sam_total' = IF r.status = "added"
                            THEN AddCount(sam_total, r.count) ELSE sam_total
            /\ spc' = IF r.status = "hung" THEN "hung" ELSE "loop"
            /\ opp_i' = IF r.status = "hung" THEN opp_i ELSE opp_i + 1
    /\ UNCHANGED <<opportunities, include_description, include_full_text, sam_ret>>
    /\ SamFrame

\* lines 245-246
SamReturn ==
    /\ spc = "loop"
    /\ opp_i = Len(opportunities)
    /\ sam_ret' = sam_total
    /\ spc' = "done"
    /\ UNCHANGED <<opportunities, include_description, include_full_text, opp_i,
                   sam_total, sam_outcomes, sam_calls, collection>>
    /\ SamFrame

SamNext == SamLoad \/ SamRecord \/ SamReturn

\* the other ingestion entry point is not running
DirIdle ==
    /\ files = <<>>
    /\ meta_arg = [given |-> FALSE, dict |-> EmptyDict]
    /\ caller_dict = EmptyDict
    /\ ipc = "idle"
    /\ file_i = 0
    /\ total_chunks = 0
    /\ failed_files = <<>>
    /\ outcomes = <<>>
    /\ add_calls = <<>>
    /\ ret = 0

InitSam ==
    /\ settings \in BatchSettings
    /\ collection = EmptyDict
    /\ ChunkIdle /\ ExtractIdle /\ DirIdle /\ SamInit /\ StoreIdle

SpecSam == InitSam /\ [][SamNext]_vars

\* ------------------------------------------------------------ process_document: claims

\* the text extract_text returned came out of an OCR tool
ProducedByOcr ==
    \/ doc.suffix = ".pdf" /\ ocr_invoked
    \/ doc.suffix \in ImageSuffixes

\* C23: process_document of DocumentProcessorWithOCR sets ocr_used to true
\* exactly when the text it returns was produced by OCR.
C23_OcrUsedIffOcr ==
    (epc = "processed" /\ result # <<>>) =>
        (processed.metadata.ocr_used <=> ProducedByOcr)

\* extract_text has returned
Extracted == epc \in {"done", "processed", "raised", "hung"}

\* C29: when the OCR fallback is entered for the threshold alone and the OCR
\* attempt fails, extract_text_from_pdf returns the natively extracted text;
\* the fallback never returns less text than native extraction had produced.
C29_FallbackKeepsNative ==
    (Extracted /\ doc.suffix = ".pdf" /\ ~force_ocr /\ ocr_invoked) =>
        /\ ocr_failed => result = native_text
        /\ Len(result) >= Len(native_text)

\* ------------------------------------------------------------ VectorStore

\* a chunks argument of n chunks, each the text c
Batch(n, c) == [k \in 1..n |-> <<c>>]

\* add_documents line 107: metadatas when none are given
NoMetadatas(chunk_list) == [k \in 1..Len(chunk_list) |-> EmptyDict]

\* one caller, or two callers sharing the collection; the collection is new
StoreInit ==
    /\ writers \in {{1}, Writers}
    /\ ops_left = MaxOps
    /\ wpc = [w \in Writers |-> "idle"]
    /\ wchunks = [w \in Writers |-> <<>>]
    /\ wcount = [w \in Writers |-> 0]
    /\ wids = [w \in Writers |-> <<>>]
    /\ wlast = [w \in Writers |-> "none"]
    /\ embed_failed = [w \in Writers |-> FALSE]
    /\ stored = 0
    /\ resets = 0
    /\ handle_ok = TRUE
    /\ deletes = 0
    /\ last_op = "none"
    /\ stats = NoStats
    /\ collection = EmptyDict

\* what the vector store's methods leave alone
StoreFrame == UNCHANGED <<chunkVars, extractVars, dirVars, samVars>>

\* add_documents(chunks) without metadatas and ids, lines 96-98: the call and
\* the return of 0 for no chunks
AddCall(w) ==
    /\ w \in writers
    /\ wpc[w] = "idle"
    /\ ops_left > 0
    /\ ops_left' = ops_left - 1
    /\ \E n \in 0..MaxBatch, c \in {"x", "y"} :
        /\ n = 0 => c = "x"
        /\ wchunks' = [wchunks EXCEPT ![w] = Batch(n, c)]
        /\ wpc' = [wpc EXCEPT ![w] = IF n = 0 THEN "idle" ELSE "count"]
        /\ wlast' = [wlast EXCEPT ![w] = IF n = 0 THEN "returned" ELSE "none"]
    /\ embed_failed' = [embed_failed EXCEPT ![w] = FALSE]
    /\ wids' = [wids EXCEPT ![w] = <<>>]
    /\ last_op' = "add"
    /\ UNCHANGED <<writers, wcount, stored, resets, handle_ok, deletes, stats, collection>>
    /\ StoreFrame

\* lines 101-107: collection.count() and the ids made from it
AddSynthesizeIds(w) ==
    /\ wpc[w] = "count"
    /\ IF handle_ok
       THEN /\ wcount' = [wcount EXCEPT ![w] = Count(collection)]
            /\ wids' = [wids EXCEPT ![w] = AutoIds(Count(collection), Len(wchunks[w]))]
            /\ wpc' = [wpc EXCEPT ![w] = "embed"]
            /\ UNCHANGED wlast
       ELSE /\ wpc' = [wpc EXCEPT ![w] = "idle"]
            /\ wlast' = [wlast EXCEPT ![w] = "raised"]
            /\ UNCHANGED <<wcount, wids>>
    /\ UNCHANGED <<writers, ops_left, wchunks, embed_failed, stored, resets,
                   handle_ok, deletes, last_op, stats, collection>>
    /\ StoreFrame

\* lines 109-110: generate_embeddings, whose exception leaves add_documents
AddEmbed(w) ==
    /\ wpc[w] = "embed"
    /\ \E embed_ok \in BOOLEAN :
        IF embed_ok
        THEN /\ wpc' = [wpc EXCEPT ![w] = "add"]
             /\ UNCHANGED <<wlast, embed_failed, collection>>
        ELSE /\ wpc' = [wpc EXCEPT ![w] = "idle"]
             /\ wlast' = [wlast EXCEPT ![w] = "raised"]
             /\ embed_failed' = [embed_failed EXCEPT ![w] = TRUE]
             /\ collection' = OnEmbeddingError(collection, wids[w], wchunks[w],
                                               NoMetadatas(wchunks[w]))
    /\ UNCHANGED <<writers, ops_left, wchunks, wcount, wids, stored, resets,
                   handle_ok, deletes, last_op, stats>>
    /\ StoreFrame

\* lines 113-121: collection.add and the return of len(chunks)
AddStore(w) ==
    /\ wpc[w] = "add"
    /\ \E add_ok \in BOOLEAN :
        IF add_ok /\ handle_ok
        THEN /\ collection' = CollectionAdd(collection, wids[w], wchunks[w],
                                            NoMetadatas(wchunks[w]))
             /\ wlast' = [wlast EXCEPT ![w] = "returned"]
             /\ stored' = stored + Len(wchunks[w])
        ELSE /\ wlast' = [wlast EXCEPT ![w] = "raised"]
             /\ UNCHANGED <<collection, stored>>
    /\ wpc' = [wpc EXCEPT ![w] = "idle"]
    /\ UNCHANGED <<writers, ops_left, wchunks, wcount, wids, embed_failed, resets,
                   handle_ok, deletes, last_op, stats>>
    /\ StoreFrame

\* reset_collection, lines 179-186: delete the collection and create it anew.
\* client.delete_collection raises for a name the client does not hold, and
\* create_collection is then not reached
ResetCollection(w) ==
    /\ w \in writers
    /\ wpc[w] = "idle"
    /\ ops_left > 0
    /\ ops_left' = ops_left - 1
    /\ last_op' = "reset"
    /\ IF handle_ok
       THEN /\ collection' = EmptyDict
            /\ stored' = 0
            /\ resets' = resets + 1
            /\ wlast' = [wlast EXCEPT ![w] = "returned"]
       ELSE /\ wlast' = [wlast EXCEPT ![w] = "raised"]
            /\ UNCHANGED <<collection, stored, resets>>
    /\ UNCHANGED <<writers, wpc, wchunks, wcount, wids, embed_failed, handle_ok,
                   deletes, stats>>
    /\ StoreFrame

\* delete_collection, lines 174-177: the client drops the collection and
\* self.collection keeps naming it
DeleteCollection(w) ==
    /\ w \in writers
    /\ wpc[w] = "idle"
    /\ ops_left > 0
    /\ ops_left' = ops_left - 1
    /\ last_op' = "delete"
    /\ IF handle_ok
       THEN /\ collection' = EmptyDict
            /\ stored' = 0
            /\ deletes' = deletes + 1
            /\ handle_ok' = FALSE
            /\ wlast' = [wlast EXCEPT ![w] = "returned"]
       ELSE /\ wlast' = [wlast EXCEPT ![w] = "raised"]
            /\ UNCHANGED <<collection, stored, deletes, handle_ok>>
    /\ UNCHANGED <<writers, wpc, wchunks, wcount, wids, embed_failed, resets, stats>>
    /\ StoreFrame

\* get_collection_stats, lines 156-172: collection.count() raises on a
\* collection the client has dropped
GetCollectionStats(w) ==
    /\ w \in writers
    /\ wpc[w] = "idle"
    /\ ops_left > 0
    /\ ops_left' = ops_left - 1
    /\ last_op' = "stats"
    /\ stats' = IF handle_ok
                THEN [status |-> "returned", total_chunks |-> Count(collection)]
                ELSE [status |-> "raised", total_chunks |-> 0]
    /\ UNCHANGED <<writers, wpc, wchunks, wcount, wids, wlast, embed_failed, stored,
                   resets, handle_ok, deletes, collection>>
    /\ StoreFrame

AddCallStep == \E w \in Writers : AddCall(w)
AddSynthesizeIdsStep == \E w \in Writers : AddSynthesizeIds(w)
AddEmbedStep == \E w \in Writers : AddEmbed(w)
AddStoreStep == \E w \in Writers : AddStore(w)
ResetCollectionStep == \E w \in Writers : ResetCollection(w)
DeleteCollectionStep == \E w \in Writers : DeleteCollection(w)
GetCollectionStatsStep == \E w \in Writers : GetCollectionStats(w)

StoreNext ==
    \/ AddCallStep
    \/ AddSynthesizeIdsStep
    \/ AddEmbedStep
    \/ AddStoreStep
    \/ ResetCollectionStep
    \/ DeleteCollectionStep
    \/ GetCollectionStatsStep

InitStore ==
    /\ settings = [chunk_size |-> MaxChunkSize, chunk_overlap |-> 0]
    /\ ChunkIdle /\ ExtractIdle /\ DirIdle /\ SamIdle /\ StoreInit

SpecStore == InitStore /\ [][StoreNext]_vars

\* ------------------------------------------------------------ VectorStore: claims

\* the identifiers a caller has synthesized and not yet added
Pending(w) ==
    IF wpc[w] \in {"embed", "add"} THEN {wids[w][k] : k \in 1..Len(wids[w])} ELSE {}

\* C18: with a single writer calling add_documents without ids, with resets in
\* between, every synthesized identifier is absent from the collection and
\* the identifiers of one call differ, so every chunk reported added is an
\* entry of its own.
C18_SingleWriterFreshIds ==
    Cardinality(writers) = 1 =>
        /\ \A w \in writers :
                /\ Pending(w) \cap DOMAIN collection = {}
                /\ wpc[w] \in {"embed", "add"} =>
                        Cardinality(Pending(w)) = Len(wchunks[w])
        /\ Count(collection) = stored

C18_Witness ==
    /\ Cardinality(writers) = 1
    /\ resets >= 1
    /\ Count(collection) >= 1
    /\ \E w \in writers : wpc[w] = "add" /\ Len(wids[w]) = 2

\* C19: two writers that both read the collection size before either adds
\* synthesize a common identifier.
C19_SameSizeSameId ==
    \A v, w \in writers :
        (v # w /\ wpc[v] \in {"embed", "add"} /\ wpc[w] \in {"embed", "add"}
             /\ wcount[v] = wcount[w]) =>
            Pending(v) \cap Pending(w) # {}

C19_Witness ==
    /\ writers = Writers
    /\ wpc = [w \in Writers |-> "add"]
    /\ wids[1][1] = wids[2][1]
    /\ wids[1][1] \notin DOMAIN collection

\* C20: when generate_embeddings fails, add_documents ends by raising and the
\* collection is as it was before the call.
C20_EmbeddingFailureNoEntry ==
    [][\A w \in Writers :
          (wpc[w] = "embed" /\ embed_failed'[w]) =>
              /\ wlast'[w] = "raised"
              /\ wpc'[w] = "idle"
              /\ collection' = collection
              /\ stored' = stored]_vars

C20_Witness ==
    \E w \in writers :
        /\ embed_failed[w]
        /\ wlast[w] = "raised"
        /\ wpc[w] = "idle"
        /\ Len(wchunks[w]) = 2
        /\ Count(collection) = 1

\* C21: an entry stored under an identifier keeps its text and metadata through
\* every later call, and entries leave the collection only in a
\* reset_collection or delete_collection call.
C21_EntriesImmutable ==
    [][/\ \A id \in DOMAIN collection \cap DOMAIN collection' :
              collection'[id] = collection[id]
       /\ (DOMAIN collection \ DOMAIN collection' # {}) =>
              (resets' = resets + 1 \/ deletes' = deletes + 1)]_vars

C21_Witness ==
    /\ writers = Writers
    /\ wlast = [w \in Writers |-> "returned"]
    /\ wids[1] # <<>>
    /\ wids[1] = wids[2]
    /\ wchunks[1] # wchunks[2]
    /\ wids[1][1] \in DOMAIN collection

\* C22: after reset_collection or delete_collection the store works on an
\* empty collection: get_collection_stats returns the number of chunks added
\* since, and add_documents goes on to add.
C22_ClearedStoreUsable ==
    [][(Cardinality(writers) = 1 /\ resets + deletes > 0) =>
          /\ (last_op' = "stats" /\ ops_left' < ops_left) =>
                  stats' = [status |-> "returned", total_chunks |-> stored]
          /\ \A w \in writers : wpc[w] = "count" => wpc'[w] = "embed"]_vars

\* ------------------------------------------------------------ ingest_sam_data: claims

\* the identifiers ingest_sam_data derived for the k-th record handled
SamIdsOf(k) ==
    IF sam_calls[k] = <<>> THEN {}
    ELSE {sam_calls[k][1][n] : n \in 1..Len(sam_calls[k][1])}

\* C15: two distinct records of a batch receive disjoint identifier sets, also
\* when noticeId is absent from a record.
C15_SamDisjointIds ==
    \A i, j \in 1..Len(sam_calls) :
        opportunities[i] # opportunities[j] => SamIdsOf(i) \cap SamIdsOf(j) = {}

\* none of the text fields the call selects is present and non-empty
NoUsableText(opp) ==
    /\ ~("title" \in DOMAIN opp /\ Len(opp.title) > 0)
    /\ ~(include_description /\ "description" \in DOMAIN opp /\ Len(opp.description) > 0)
    /\ ~(include_full_text /\ "fullText" \in DOMAIN opp /\ Len(opp.fullText) > 0)

\* the number of chunks chunk_text makes of the k-th record's text
SamChunkCount(k) ==
    Len(ChunkText(Join(TextParts(opportunities[k], include_description,
                                 include_full_text)), None, None, settings).chunks)

RECURSIVE SumAdded(_)
SumAdded(k) ==
    IF k = 0 THEN 0
    ELSE SumAdded(k - 1) + (IF sam_outcomes[k] = "added" THEN SamChunkCount(k) ELSE 0)

\* C17: ingest_sam_data returns the sum of the chunk counts of the records
\* whose add_documents call returned; a record without usable text is skipped,
\* and a record that is skipped or whose handling raises adds nothing to the
\* count, leaves the collection as it was, and is followed by the next record.
C17_SamSumAndIsolation ==
    /\ [](/\ sam_total = SumAdded(Len(sam_outcomes))
          /\ spc = "done" => /\ sam_ret = sam_total
                             /\ Len(sam_outcomes) = Len(opportunities)
          /\ \A k \in 1..Len(sam_outcomes) :
                NoUsableText(opportunities[k]) => sam_outcomes[k] = "skipped")
    /\ [][(spc = "loop" /\ opp_i < Len(opportunities)
            /\ sam_outcomes'[opp_i + 1] \in {"raised", "skipped"}) =>
                /\ collection' = collection
                /\ sam_total' = sam_total
                /\ opp_i' = opp_i + 1
                /\ spc' = "loop"]_vars

C17_Witness ==
    /\ spc = "done"
    /\ sam_outcomes \in {<<"raised", "added">>, <<"skipped", "added">>}
    /\ opportunities[1] # opportunities[2]
    /\ sam_ret >= 2

\* ------------------------------------------------------------ specifications

InitExtract ==
    /\ settings = [chunk_size |-> MaxChunkSize, chunk_overlap |-> 0]
    /\ ChunkIdle /\ ExtractInit /\ IngestIdle /\ SamIdle /\ StoreIdle

SpecExtract == InitExtract /\ [][ExtractNext]_vars

InitChunk == ChunkInit /\ ExtractIdle /\ IngestIdle /\ SamIdle /\ StoreIdle

SpecChunk == InitChunk /\ [][ChunkNext]_vars

\* chunk_text on longer texts of two characters, with explicit arguments: a
\* chunk size one below the text length and every overlap
LongTexts == [1..MaxLongLen -> {"a", "."}]

ChunkLongInit ==
    /\ settings = [chunk_size |-> MaxChunkSize, chunk_overlap |-> 0]
    /\ text \in LongTexts
    /\ size_arg = <<MaxLongLen - 1>>
    /\ overlap_arg \in {<<n>> : n \in 0..MaxOverlap}
    /\ chunk_size = 0
    /\ chunk_overlap = 0
    /\ cpc = "call"
    /\ start = 0
    /\ chunks = <<>>
    /\ windows = <<>>

InitChunkLong == ChunkLongInit /\ ExtractIdle /\ IngestIdle /\ SamIdle /\ StoreIdle

SpecChunkLong == InitChunkLong /\ [][ChunkNext]_vars

\* ------------------------------------------------------------ chunk_text: claims

\* the call has applied its defaults, the overlap is valid and the text is long
ValidLong ==
    /\ cpc # "call"
    /\ 0 <= chunk_overlap /\ chunk_overlap < chunk_size
    /\ Len(text) > chunk_size

\* C1: for 0 <= O < S and a text longer than S the loop of chunk_text ends: no
\* iteration comes back to a start value of an earlier iteration (the loop body
\* is a function of start alone, so a repeated start is a loop without end).
C1_Terminates == ValidLong => cpc # "diverged"

\* C2: with O >= S chunk_text is rejected before any chunk is produced and the
\* loop is never entered.
C2_OverlapRejected ==
    (cpc # "call" /\ chunk_overlap >= chunk_size) =>
        (chunks = <<>> /\ cpc \notin {"loop", "diverged", "done"})

\* C3: for O < S and a text longer than S every chunk has length at most S.
C3_ChunkLenBound ==
    ValidLong => \A k \in 1..Len(chunks) : Len(chunks[k]) <= chunk_size

C3_Witness ==
    /\ ValidLong /\ cpc = "done" /\ Len(chunks) >= 2
    /\ \E k \in 1..Len(chunks) : Len(chunks[k]) = chunk_size

\* C4: a text no longer than S is returned as the one-element list holding the
\* whitespace-trimmed text.
C4_ShortIsStripped ==
    (cpc = "done" /\ Len(text) <= chunk_size) => chunks = <<Strip(text)>>

\* C5 as claimed: chunk_text of the empty string returns the empty list.
C5_EmptyGivesNoChunk == (cpc = "done" /\ text = <<>>) => chunks = <<>>

\* C5 amended: chunk_text of the empty string returns the one-element list
\* holding the empty string.
C5_EmptyGivesOneEmptyChunk == (cpc = "done" /\ text = <<>>) => chunks = << <<>> >>

C5_Witness == cpc = "done" /\ text = <<>> /\ Len(chunks) = 1

\* The window of the iteration that started at s, as text[s:s+S] takes it
WindowIdx(t, s, S) == NormIdx(s, Len(t)) .. (NormIdx(s + S, Len(t)) - 1)
Terminators(t, s, S) == {p \in WindowIdx(t, s, S) : t[p + 1] \in {".", "\n"}}
TrailingPeriods(t, s, S) ==
    {p \in WindowIdx(t, s, S) : p >= s + S - SnapLookback /\ t[p + 1] = "."}

\* C6 as claimed: a window whose right edge lies before the end of the text and
\* that holds a '.' in its trailing 200 characters gives a chunk that ends just
\* after the last '.' or line break of the window.
C6_SnapsAtPeriod ==
    ValidLong =>
        \A k \in 1..Len(windows) :
            LET s == windows[k][1]
                e == windows[k][2]
            IN  (s + chunk_size < Len(text) /\ TrailingPeriods(text, s, chunk_size) # {})
                    => e = SetMax(Terminators(text, s, chunk_size)) + 1

\* C6 amended: the same, for a '.' that is not the first character of the window.
C6_SnapsAtPeriodAfterFirst ==
    ValidLong =>
        \A k \in 1..Len(windows) :
            LET s == windows[k][1]
                e == windows[k][2]
                first == NormIdx(s, Len(text))
            IN  (/\ s + chunk_size < Len(text)
                 /\ \E p \in TrailingPeriods(text, s, chunk_size) : p > first)
                    => e = SetMax(Terminators(text, s, chunk_size)) + 1

C6_Witness ==
    /\ ValidLong
    /\ \E k \in 1..Len(windows) :
          LET s == windows[k][1]
              e == windows[k][2]
          IN  /\ s + chunk_size < Len(text)
              /\ \E p \in TrailingPeriods(text, s, chunk_size) : p > NormIdx(s, Len(text))
              /\ e < s + chunk_size

\* C24: in every iteration of the loop (O < S, text longer than S) the window
\* start satisfies 0 <= start < len(text) and the window end chosen satisfies
\* start < end <= start + S; start is never negative.
C24_StartInBounds ==
    ValidLong =>
        /\ \A k \in 1..Len(windows) :
                LET s == windows[k][1]
                    e == windows[k][2]
                IN  0 <= s /\ s < Len(text) /\ s < e /\ e <= s + chunk_size
        /\ start >= 0

\* C26: an explicit chunk_overlap of 0 is the overlap chunk_text works with:
\* consecutive windows abut.
C26_ExplicitZeroOverlap ==
    (cpc # "call" /\ overlap_arg = <<0>>) =>
        /\ chunk_overlap = 0
        /\ \A k \in 1..(Len(windows) - 1) : windows[k + 1][1] = windows[k][2]

\* the character positions of the text that the chunk of a window is cut from
Span(t, w) == NormIdx(w[1], Len(t)) .. (NormIdx(w[2], Len(t)) - 1)

\* C25: when chunk_text returns (O < S, text longer than S) the first window
\* starts at 0, every next window starts at or before the end of the one
\* before it, and every character position of the text lies in the span some
\* chunk is cut from.
C25_WindowsCover ==
    (ValidLong /\ cpc = "done") =>
        /\ windows[1][1] = 0
        /\ \A k \in 1..(Len(windows) - 1) : windows[k + 1][1] <= windows[k][2]
        /\ \A q \in 0..(Len(text) - 1) :
                \E k \in 1..Len(windows) : q \in Span(text, windows[k])

\* C30: every chunk after the first covers a character position at or beyond
\* the end of the chunk before it: no chunk lies wholly inside its predecessor.
C30_NoContainedChunk ==
    ValidLong =>
        \A k \in 2..Len(windows) :
            \E q \in Span(text, windows[k]) : q >= NormIdx(windows[k - 1][2], Len(text))

\* ------------------------------------------------------------ extract_text: claims

\* extract_text_from_pdf of DocumentProcessorWithOCR has passed its line 66,
\* with OCR enabled and not forced
OcrDecided ==
    /\ processor = "ocr" /\ doc.suffix = ".pdf"
    /\ use_ocr /\ ~force_ocr
    /\ epc \in {"ocr_render", "ocr_pages", "done"}

\* C7 as claimed: OCR is invoked exactly when native extraction yielded fewer
\* than ocr_threshold characters.
C7_OcrIffBelowThreshold ==
    OcrDecided => (ocr_invoked <=> Len(native_text) < ocr_threshold)

\* C7 amended: OCR is invoked exactly when the natively extracted text, with
\* its leading and trailing whitespace removed, has fewer than ocr_threshold
\* characters.
C7_OcrIffStrippedBelowThreshold ==
    OcrDecided => (ocr_invoked <=> Len(Strip(native_text)) < ocr_threshold)

C7_Witness ==
    /\ OcrDecided /\ ocr_invoked
    /\ Len(Strip(native_text)) < ocr_threshold
    /\ Len(native_text) >= ocr_threshold

\* C8: an OCR attempt that fails returns, without raising, the text accumulated
\* from the pages recognised before the failure.
C8_OcrFailureKeepsAccumulated ==
    (epc = "done" /\ doc.suffix = ".pdf" /\ ocr_failed) => result = ocr_text

\* The native text of the pages that did not fail, in page order
RECURSIVE NativeConcat(_, _)
NativeConcat(pages, n) ==
    IF n = 0 THEN <<>>
    ELSE NativeConcat(pages, n - 1)
            \o (IF pages[n].ok THEN PageMarker(n) \o pages[n].text ELSE <<>>)

Supported == {".pdf", ".docx", ".doc", ".txt"} \cup (IF processor = "ocr" THEN ImageSuffixes ELSE {})

\* no extraction route of the document worked
DocFailed ==
    \/ doc.suffix \notin Supported
    \/ doc.suffix # ".pdf" /\ ~doc.content.ok
    \/ doc.suffix = ".pdf" /\ ~doc.reader_ok /\ (ocr_invoked => ocr_failed)

\* a PDF whose native extraction failed on some pages only
PartialPdf ==
    /\ doc.suffix = ".pdf" /\ doc.reader_ok /\ ~force_ocr
    /\ \E k \in 1..Len(doc.native) : doc.native[k].ok
    /\ \E k \in 1..Len(doc.native) : ~doc.native[k].ok

====
